---- MODULE Spec2Model ----
(***************************************************************************)
(* Model of the OpenAI token tracking proxy (nbbaier/oai-proxy).           *)
(*                                                                         *)
(* The server is a single JavaScript event loop: a handler runs without    *)
(* interruption until it reaches an `await`, and other handlers (and the   *)
(* wall clock) may run while it is suspended.  Each action below is the    *)
(* code between two suspension points of one handler.                      *)
(*                                                                         *)
(* Dates (YYYY-MM-DD, UTC) are modelled as day numbers 0..MaxDay; model    *)
(* names are sequences of one-character strings so that String.startsWith  *)
(* is computed character by character.                                     *)
(***************************************************************************)
EXTENDS Integers, Sequences, FiniteSets, TLC

(***************************************************************************)
(* Bounds of the model                                                     *)
(***************************************************************************)
\* the configured daily limits (environment values, scaled down)
PREMIUM_TIER_LIMIT == 2
MINI_TIER_LIMIT == 3
\* largest total_tokens an upstream response reports
MaxTok == 2
\* largest prompt_tokens / completion_tokens an upstream response reports
MaxPart == 1
\* last UTC day the wall clock reaches
MaxDay == 1
\* the upstream stops reporting billable usage once the log has this many rows
MaxHistory == 2
\* the same, in the runs with the reconciliation
MaxHistoryRec == 1
\* most rows of the log in the runs of the history read
MaxRows == 3
\* GET /api/history: the default and the largest page size (100 and 500 in the
\* source, scaled down with the log)
HISTORY_LIMIT_DEFAULT == 1
HISTORY_LIMIT_MAX == 2

\* largest total of a tier the provider reports to the polling worker
MaxUsage == 3
\* most polls (cron and manual together) the polling worker starts
MaxPolls == 2

Tiers == {"premium", "mini"}
Days == 0..MaxDay
Req == {"r1", "r2"}

(***************************************************************************)
(* src/lib/models.ts                                                       *)
(***************************************************************************)
PREMIUM_MODELS ==
    << <<"g", "p", "t", "-", "5">>,
       <<"g", "p", "t", "-", "5", "-", "c", "o", "d", "e", "x">>,
       <<"g", "p", "t", "-", "5", "-", "c", "h", "a", "t", "-", "l", "a", "t", "e", "s", "t">>,
       <<"g", "p", "t", "-", "4", ".", "1">>,
       <<"g", "p", "t", "-", "4", "o">>,
       <<"o", "1">>,
       <<"o", "3">> >>

MINI_MODELS ==
    << <<"g", "p", "t", "-", "5", "-", "m", "i", "n", "i">>,
       <<"g", "p", "t", "-", "5", "-", "n", "a", "n", "o">>,
       <<"g", "p", "t", "-", "4", ".", "1", "-", "m", "i", "n", "i">>,
       <<"g", "p", "t", "-", "4", ".", "1", "-", "n", "a", "n", "o">>,
       <<"g", "p", "t", "-", "4", "o", "-", "m", "i", "n", "i">>,
       <<"o", "1", "-", "m", "i", "n", "i">>,
       <<"o", "3", "-", "m", "i", "n", "i">>,
       <<"o", "4", "-", "m", "i", "n", "i">>,
       <<"c", "o", "d", "e", "x", "-", "m", "i", "n", "i", "-", "l", "a", "t", "e", "s", "t">> >>

\* String.prototype.startsWith
StartsWith(s, prefix) ==
    /\ Len(prefix) <= Len(s)
    /\ \A i \in 1..Len(prefix) : s[i] = prefix[i]

\* Array.prototype.some((prefix) => model.startsWith(prefix))
SomePrefix(list, model) ==
    \E i \in 1..Len(list) : StartsWith(model, list[i])

\* the names the classifier is tried on: every configured name cut after any
\* number of characters, followed by one of the suffixes
AllPrefixes == { PREMIUM_MODELS[i] : i \in 1..Len(PREMIUM_MODELS) }
                 \cup { MINI_MODELS[i] : i \in 1..Len(MINI_MODELS) }

Suffixes == { <<>>, <<"-", "m", "i", "n", "i">>, <<"x">>, <<"-", "2", "0", "2", "5">> }

Cuts == UNION { { SubSeq(p, 1, k) : k \in 0..Len(p) } : p \in AllPrefixes }

TierInputs == { c \o suf : c \in Cuts, suf \in Suffixes }

getModelTier_miniDefault(model) ==
    IF SomePrefix(PREMIUM_MODELS, model) THEN "premium"
    ELSE "mini"

getModelTier(model) ==
    IF SomePrefix(PREMIUM_MODELS, model) THEN "premium"
    ELSE IF SomePrefix(MINI_MODELS, model) THEN "mini"
    ELSE "premium"

(***************************************************************************)
(* State                                                                   *)
(***************************************************************************)
VARIABLES
    today,            \* the wall clock's current UTC date (getCurrentDate)
    current_date,     \* config table, key "current_date"
    usage_records,    \* usage_records table, one row per tier
    request_history,  \* request_history table, in insertion order
    req,              \* the proxyRequest handler invocations
    last_check,       \* the last checkAndResetDaily() call: its caller, what it
                      \* returned, and the parity of the number of calls so far;
                      \* rows is the number of history rows at the last rollover
    rc,               \* the reconcileUsage invocation (POST /api/reconcile)
    upstream_report,  \* the provider's usage report of each day, as pages of rows
    reconciled,       \* per tier, the tokens added by reconciliations since the
                      \* last rollover (kept for the bookkeeping of the properties)
    rc_prev,          \* the result the last successful reconciliation returned, in
                      \* the runs that record it (NoResult before the first)
    model_in,         \* classifier harness: the model name given to getModelTier
    tier_out,         \* classifier harness: the tier it returned ("none" before the call)
    hist_resp,        \* the response to the last GET /api/history
    store,            \* the database file in the runs of initDatabase: the
                      \* usage_records table as a set of rows, the stored date,
                      \* whether initDatabase has run, the last lookup's outcome
    conn,             \* per request, in the runs that follow the connections:
                      \* whether the client has aborted the inbound connection,
                      \* and what the upstream does with the forwarded request
    worker            \* the polling worker (cloudflare-worker): its alerts table,
                      \* the webhook deliveries, the provider's totals of the day
                      \* and the pollUsage invocations

vars == <<today, current_date, usage_records, request_history, req, last_check,
          rc, upstream_report, rc_prev, reconciled, model_in, tier_out,
          hist_resp, store, conn, worker>>

harness == <<model_in, tier_out, hist_resp, store, conn, worker>>

reconciler == <<rc, upstream_report, rc_prev>>

(***************************************************************************)
(* src/lib/database.ts: the quota ledger and the history log               *)
(***************************************************************************)
NoneReconciled == [t \in Tiers |-> 0]

\* config.PREMIUM_TIER_LIMIT / config.MINI_TIER_LIMIT
TierLimit(tier) == IF tier = "premium" THEN PREMIUM_TIER_LIMIT ELSE MINI_TIER_LIMIT

\* SELECT * FROM usage_records WHERE tier = ?
getUsageRecord(recs, tier) == recs[tier]

\* INSERT ... ON CONFLICT(tier) DO UPDATE SET date, tokens_used, "limit"
upsertUsageRecord(recs, record) == [recs EXCEPT ![record.tier] = record]

incrementTokens_set(recs, tier, tokens) ==
    [recs EXCEPT ![tier].tokens_used = tokens]

incrementTokens_noWhere(recs, tier, tokens) ==
    [t \in DOMAIN recs |-> [recs[t] EXCEPT !.tokens_used = @ + tokens]]

incrementTokens_clamped(recs, tier, tokens) ==
    [recs EXCEPT ![tier].tokens_used =
       IF @ + tokens > recs[tier].limit
       THEN (IF @ > recs[tier].limit THEN @ ELSE recs[tier].limit)
       ELSE @ + tokens]

\* UPDATE usage_records SET tokens_used = tokens_used + ? WHERE tier = ?
incrementTokens(recs, tier, tokens) ==
    [recs EXCEPT ![tier].tokens_used = @ + tokens]

\* resetUsageRecord reads the clock itself (getCurrentDate) for the row's date
resetUsageRecord(recs, tier, now) ==
    upsertUsageRecord(recs, [tier |-> tier, date |-> now, tokens_used |-> 0,
                             limit |-> TierLimit(tier)])

\* the dates a later getCurrentDate() of the same synchronous call can return
\* when an earlier one returned d: the clock may pass midnight in between
ClockFrom(d) == {d} \cup (IF d < MaxDay THEN {d + 1} ELSE {})

checkAndResetDaily_always(recs, stored, clock) ==
    { [recs |-> resetUsageRecord(resetUsageRecord(recs, "premium", clock), "mini", clock),
       stored |-> clock, clock |-> clock, ret |-> TRUE] }

checkAndResetDaily_premiumOnly(recs, stored, clock) ==
    IF stored # clock
    THEN { [recs |-> resetUsageRecord(recs, "premium", clock),
            stored |-> clock, clock |-> clock, ret |-> TRUE] }
    ELSE { [recs |-> recs, stored |-> stored, clock |-> clock, ret |-> FALSE] }

\* checkAndResetDaily: the outcomes of one call made when the table holds recs,
\* the stored date is `stored` and the clock shows `clock`.  ret is the value
\* returned, clock the date the clock shows when the call returns.
checkAndResetDaily(recs, stored, clock) ==
    IF stored # clock
    THEN { [recs |-> resetUsageRecord(resetUsageRecord(recs, "premium", d1), "mini", d2),
            stored |-> clock, clock |-> d2, ret |-> TRUE] :
              <<d1, d2>> \in { p \in ClockFrom(clock) \X ClockFrom(clock) :
                                 p[1] <= p[2] } }
    ELSE { [recs |-> recs, stored |-> stored, clock |-> clock, ret |-> FALSE] }

addRequestHistory_replacing(hist, entry) ==
    <<[id |-> Len(hist) + 1,
       timestamp |-> entry.timestamp,
       model |-> entry.model,
       prompt_tokens |-> entry.prompt_tokens,
       completion_tokens |-> entry.completion_tokens,
       total_tokens |-> entry.total_tokens,
       request_path |-> entry.request_path,
       status |-> entry.status,
       tier |-> entry.tier]>>

\* INSERT INTO request_history: id is AUTOINCREMENT
addRequestHistory(hist, entry) ==
    Append(hist, [id |-> Len(hist) + 1,
                  timestamp |-> entry.timestamp,
                  model |-> entry.model,
                  prompt_tokens |-> entry.prompt_tokens,
                  completion_tokens |-> entry.completion_tokens,
                  total_tokens |-> entry.total_tokens,
                  request_path |-> entry.request_path,
                  status |-> entry.status,
                  tier |-> entry.tier])

\* the value of a field or config key that is not there (undefined)
Absent == 0 - 1

\* the rows a database file may hold for tier t
RowsOf(t) ==
    { [tier |-> t, date |-> d, tokens_used |-> n, limit |-> TierLimit(t)] :
        d \in Days, n \in 0..MaxTok }

NoStore == [ready |-> FALSE, stored |-> Absent, rows |-> {}, lookup |-> "none"]

\* the database files initDatabase may find: tier is the PRIMARY KEY of
\* usage_records, so a file holds at most one row per tier; the stored date
\* may be missing
Files ==
    { [NoStore EXCEPT !.stored = c, !.rows = P \cup M] :
        c \in Days \cup {Absent},
        P \in {{}} \cup { {x} : x \in RowsOf("premium") },
        M \in {{}} \cup { {x} : x \in RowsOf("mini") } }

\* SELECT * FROM usage_records WHERE tier = ?
selectRows(rows, tier) == { x \in rows : x.tier = tier }

upsertRow_insertOnly(rows, record) == rows \cup {record}

\* INSERT ... ON CONFLICT(tier) DO UPDATE SET date, tokens_used, "limit"
upsertRow(rows, record) == { x \in rows : x.tier # record.tier } \cup {record}

\* the row resetUsageRecord and initializeConfig write for a tier
freshRow(tier, now) ==
    [tier |-> tier, date |-> now, tokens_used |-> 0, limit |-> TierLimit(tier)]

\* initializeConfig: the date and each row are written only if missing
initializeConfig(f, now) ==
    LET r1 == IF selectRows(f.rows, "premium") = {}
              THEN upsertRow(f.rows, freshRow("premium", now)) ELSE f.rows
        r2 == IF selectRows(r1, "mini") = {}
              THEN upsertRow(r1, freshRow("mini", now)) ELSE r1
    IN [f EXCEPT !.ready = TRUE,
                 !.stored = IF f.stored = Absent THEN now ELSE f.stored,
                 !.rows = r2]

\* initDatabase: createTables, then initializeConfig
InitDatabase ==
    /\ ~store.ready
    /\ store' = initializeConfig(store, today)
    /\ UNCHANGED <<today, current_date, usage_records, request_history, req,
                   last_check, reconciler, reconciled, model_in, tier_out,
                   hist_resp, conn,
                   worker>>

\* checkAndResetDaily on the table; the clock may pass midnight between its
\* reads
StoreRollover ==
    /\ store.ready
    /\ store.stored # today
    /\ \E d1 \in ClockFrom(today) : \E d2 \in ClockFrom(d1) :
         /\ store' = [store EXCEPT
                        !.stored = today,
                        !.rows = upsertRow(upsertRow(store.rows, freshRow("premium", d1)),
                                           freshRow("mini", d2))]
         /\ today' = d2
    /\ UNCHANGED <<current_date, usage_records, request_history, req,
                   last_check, reconciler, reconciled, model_in, tier_out,
                   hist_resp, conn,
                   worker>>

\* incrementTokens on the table: UPDATE ... WHERE tier = ?
StoreIncrement ==
    /\ store.ready
    /\ \E t \in Tiers :
         /\ \A x \in selectRows(store.rows, t) : x.tokens_used < MaxTok
         /\ store' = [store EXCEPT
                        !.rows = { IF x.tier = t
                                   THEN [x EXCEPT !.tokens_used = @ + 1] ELSE x :
                                     x \in store.rows }]
    /\ UNCHANGED <<today, current_date, usage_records, request_history, req,
                   last_check, reconciler, reconciled, model_in, tier_out,
                   hist_resp, conn,
                   worker>>

\* getUsageRecord as the admission check and getUsageStats call it: without a
\* row the caller answers that usage tracking is not initialized
StoreRead ==
    /\ store.ready
    /\ \E t \in Tiers :
         store' = [store EXCEPT
                     !.lookup = IF selectRows(store.rows, t) = {}
                                THEN "not_initialized" ELSE "found"]
    /\ UNCHANGED <<today, current_date, usage_records, request_history, req,
                   last_check, reconciler, reconciled, model_in, tier_out,
                   hist_resp, conn,
                   worker>>

(***************************************************************************)
(* src/lib/proxy.ts: proxyRequest                                          *)
(***************************************************************************)
\* model names sent by clients: a premium prefix, a mini name that extends a
\* premium prefix, a mini name that extends none
GPT_4O == <<"g", "p", "t", "-", "4", "o">>
GPT_4O_MINI == <<"g", "p", "t", "-", "4", "o", "-", "m", "i", "n", "i">>
O4_MINI == <<"o", "4", "-", "m", "i", "n", "i">>
ReqModels == {GPT_4O, O4_MINI}

Paths == {"/v1/chat/completions"}
Statuses == {200, 400}

\* the inbound body: valid = JSON.parse succeeds; has_model = the parsed object
\* has a model field; stream = its stream field is the boolean true
Bodies ==
    { [valid |-> FALSE, has_model |-> FALSE, model |-> <<>>, stream |-> FALSE] }
    \cup { [valid |-> TRUE, has_model |-> FALSE, model |-> <<>>, stream |-> s] :
             s \in BOOLEAN }
    \cup { [valid |-> TRUE, has_model |-> TRUE, model |-> m, stream |-> s] :
             m \in ReqModels \cup {<<>>}, s \in BOOLEAN }

\* responseData.usage of the parsed upstream body (present = the field exists)
NoUsage ==
    [present |-> FALSE, prompt_tokens |-> 0, completion_tokens |-> 0,
     total_tokens |-> 0]

Usage(p, c, n) ==
    [present |-> TRUE, prompt_tokens |-> p, completion_tokens |-> c,
     total_tokens |-> n]

\* every usage object within the bounds, consistent or not
Usages ==
    {NoUsage} \cup { Usage(p, c, n) : p \in 0..MaxPart, c \in 0..MaxPart, n \in 0..MaxTok }

\* the usage objects of the runs with concurrent requests: none, and a
\* consistent one for each billable total
FewUsages ==
    {NoUsage} \cup { Usage(1, n - 1, n) : n \in 1..MaxTok }

\* the value of a field the usage object does not have (undefined)
Missing == 0 - 1

\* the usage objects of the runs with store errors: those of FewUsages, and one
\* without completion_tokens, as the embeddings endpoint returns
StoreUsages == FewUsages \cup { Usage(1, Missing, 1) }

\* the upstream reports nothing billable once the log holds maxRows rows
Billable(usages, hist, maxRows) ==
    IF Len(hist) < maxRows THEN usages
    ELSE { u \in usages : ~(u.present /\ u.total_tokens > 0) }

Idle ==
    [pc |-> "idle", path |-> "", model |-> <<>>, stream |-> FALSE,
     tier |-> "none", isStreaming |-> FALSE, forwarded |-> FALSE,
     upstream_status |-> 0, status |-> 0, type |-> "none", usage |-> NoUsage,
     day |-> 0]

\* c.json(error, status) / new Response(..., {status}): the handler returns
Respond(q, status, type) ==
    [Idle EXCEPT !.pc = "done", !.model = q.model, !.stream = q.stream,
                 !.tier = q.tier, !.forwarded = q.forwarded,
                 !.status = status, !.type = type]

modelMissing_never(body) == FALSE

\* if (!model)
modelMissing(body) == ~body.has_model \/ body.model = <<>>

limitExceeded_gt(usageRecord) == usageRecord.tokens_used > usageRecord.limit

limitExceeded_never(usageRecord) == FALSE

\* if (usageRecord.tokens_used >= usageRecord.limit)
limitExceeded(usageRecord) == usageRecord.tokens_used >= usageRecord.limit

isStreamingRequest_never(body) == FALSE

\* const isStreaming = requestBody.stream === true
isStreamingRequest(body) == body.stream = TRUE

\* lines 17-32: rollover check, path, then await c.req.text(); `dated` says
\* whether the request keeps, in day, the stored date it was received under
\* (bookkeeping for the properties; the handler holds no such value)
ProxyStartOf(r, dated) ==
    /\ req[r].pc = "idle"
    /\ \E o \in checkAndResetDaily(usage_records, current_date, today),
          path \in Paths :
         /\ usage_records' = o.recs
         /\ current_date' = o.stored
         /\ today' = o.clock
         /\ last_check' = [op |-> "proxy", rolled |-> o.ret, n |-> 1 - last_check.n,
                            rows |-> IF o.ret THEN Len(request_history)
                                     ELSE last_check.rows]
         /\ reconciled' = IF o.ret THEN NoneReconciled ELSE reconciled
         /\ req' = [req EXCEPT ![r] = [Idle EXCEPT !.pc = "body", !.path = path,
                                                   !.day = IF dated THEN o.stored
                                                           ELSE 0]]
    /\ UNCHANGED <<request_history, reconciler, harness>>

ProxyStart(r) == ProxyStartOf(r, FALSE)

ProxyStartDated(r) == ProxyStartOf(r, TRUE)

ProxyAdmit_exclusive(r) ==
    /\ req[r].pc = "body"
    /\ \A r2 \in Req \ {r} : req[r2].pc \notin {"fetch", "json"}
    /\ \E body \in Bodies :
         IF ~body.valid
         THEN req' = [req EXCEPT ![r] = Respond(req[r], 400, "invalid_request_error")]
         ELSE IF modelMissing(body)
         THEN req' = [req EXCEPT ![r] = Respond(req[r], 400, "invalid_request_error")]
         ELSE LET tier == getModelTier(body.model)
                  usageRecord == getUsageRecord(usage_records, tier)
                  q == [req[r] EXCEPT !.model = body.model, !.stream = body.stream,
                                      !.tier = tier]
              IN IF limitExceeded(usageRecord)
                 THEN req' = [req EXCEPT ![r] = Respond(q, 429, "rate_limit_error")]
                 ELSE req' = [req EXCEPT ![r] =
                                [q EXCEPT !.pc = "fetch",
                                          !.isStreaming = isStreamingRequest(body),
                                          !.forwarded = TRUE]]
    /\ UNCHANGED <<today, current_date, usage_records, request_history, last_check,
                   reconciler, reconciled, harness>>

\* lines 33-108: parse the body, classify, check the quota, start the forward
ProxyAdmit(r) ==
    /\ req[r].pc = "body"
    /\ \E body \in Bodies :
         IF ~body.valid
         THEN req' = [req EXCEPT ![r] = Respond(req[r], 400, "invalid_request_error")]
         ELSE IF modelMissing(body)
         THEN req' = [req EXCEPT ![r] = Respond(req[r], 400, "invalid_request_error")]
         ELSE LET tier == getModelTier(body.model)
                  usageRecord == getUsageRecord(usage_records, tier)
                  q == [req[r] EXCEPT !.model = body.model, !.stream = body.stream,
                                      !.tier = tier]
              IN IF limitExceeded(usageRecord)
                 THEN req' = [req EXCEPT ![r] = Respond(q, 429, "rate_limit_error")]
                 ELSE req' = [req EXCEPT ![r] =
                                [q EXCEPT !.pc = "fetch",
                                          !.isStreaming = isStreamingRequest(body),
                                          !.forwarded = TRUE]]
    /\ UNCHANGED <<today, current_date, usage_records, request_history, last_check,
                   reconciler, reconciled, harness>>

ProxyFetchReturn_accounts(r) ==
    /\ req[r].pc = "fetch"
    /\ \/ /\ req' = [req EXCEPT ![r] = Respond(req[r], 500, "server_error")]
          /\ usage_records' = incrementTokens(usage_records, req[r].tier, 1)
       \/ /\ \E st \in Statuses :
               IF req[r].isStreaming
               THEN req' = [req EXCEPT ![r] = Respond(req[r], st, "stream")]
               ELSE req' = [req EXCEPT ![r] = [req[r] EXCEPT !.pc = "json",
                                                             !.upstream_status = st]]
          /\ UNCHANGED usage_records
    /\ UNCHANGED <<today, current_date, request_history, last_check,
                   reconciler, reconciled, harness>>

\* lines 97-130: the forward returns (or throws); a streaming request is passed
\* through, any other awaits the body as JSON
ProxyFetchReturn(r) ==
    /\ req[r].pc = "fetch"
    /\ \/ req' = [req EXCEPT ![r] = Respond(req[r], 500, "server_error")]
       \/ \E st \in Statuses :
            IF req[r].isStreaming
            THEN req' = [req EXCEPT ![r] = Respond(req[r], st, "stream")]
            ELSE req' = [req EXCEPT ![r] = [req[r] EXCEPT !.pc = "json",
                                                          !.upstream_status = st]]
    /\ UNCHANGED <<today, current_date, usage_records, request_history, last_check,
                   reconciler, reconciled, harness>>

\* the history row of lines 140-149
historyEntry(q, usage, now) ==
    [timestamp |-> now,
     model |-> q.model,
     prompt_tokens |-> usage.prompt_tokens,
     completion_tokens |-> usage.completion_tokens,
     total_tokens |-> usage.total_tokens,
     request_path |-> q.path,
     status |-> q.upstream_status,
     tier |-> q.tier]

\* request_history declares prompt_tokens and completion_tokens NOT NULL: the
\* INSERT throws when either is undefined
insertThrows(entry) ==
    entry.prompt_tokens = Missing \/ entry.completion_tokens = Missing

usageTracked_anyUsage(usage) == usage.present

\* if (usage && usage.total_tokens > 0)
usageTracked(usage) == usage.present /\ usage.total_tokens > 0

\* lines 130-176: the upstream body is parsed (or the parse throws), usage is
\* accounted, the upstream response is returned; the upstream body carries a
\* usage object of `usages`, which the returned body (JSON.stringify of the parsed
\* data) carries too
ProxyJsonReturnOf(r, usages, maxRows) ==
    /\ req[r].pc = "json"
    /\ \/ /\ req' = [req EXCEPT ![r] = Respond(req[r], 500, "server_error")]
          /\ UNCHANGED <<usage_records, request_history>>
       \/ \E usage \in Billable(usages, request_history, maxRows) :
            IF usageTracked(usage)
            THEN /\ usage_records' =
                      incrementTokens(usage_records, req[r].tier, usage.total_tokens)
                 /\ IF insertThrows(historyEntry(req[r], usage, today))
                    THEN \* the catch of lines 164-176 answers for the INSERT
                         /\ UNCHANGED request_history
                         /\ req' = [req EXCEPT ![r] =
                                      [Respond(req[r], 500, "server_error")
                                         EXCEPT !.usage = usage]]
                    ELSE /\ request_history' =
                              addRequestHistory(request_history,
                                                historyEntry(req[r], usage, today))
                         /\ req' = [req EXCEPT ![r] =
                                      [Respond(req[r], req[r].upstream_status, "upstream")
                                         EXCEPT !.usage = usage]]
            ELSE /\ UNCHANGED <<usage_records, request_history>>
                 /\ req' = [req EXCEPT ![r] =
                              [Respond(req[r], req[r].upstream_status, "upstream")
                                 EXCEPT !.usage = usage]]
    /\ UNCHANGED <<today, current_date, last_check, reconciler, reconciled, harness>>

ProxyJsonReturn(r) == ProxyJsonReturnOf(r, Usages, MaxHistory)

ProxyJsonReturnFew(r) == ProxyJsonReturnOf(r, FewUsages, MaxHistory)

ProxyJsonReturnRec(r) == ProxyJsonReturnOf(r, FewUsages, MaxHistoryRec)

ProxyJsonReturnStore(r) == ProxyJsonReturnOf(r, StoreUsages, MaxHistory)

\* the response has been delivered; the slot serves the next request
ProxyFinish(r) ==
    /\ req[r].pc = "done"
    /\ req' = [req EXCEPT ![r] = Idle]
    /\ UNCHANGED <<today, current_date, usage_records, request_history, last_check,
                   reconciler, reconciled, harness>>

\* what the upstream does with a forwarded request: nothing yet ("none"), the
\* fetch fails ("network_error"), the body arrives but is no JSON
\* ("unparsable"), or a JSON body arrives in full with the usage object given
NoAnswer == [kind |-> "none", usage |-> NoUsage]

Answers(hist) ==
    { [kind |-> "network_error", usage |-> NoUsage],
      [kind |-> "unparsable", usage |-> NoUsage] }
    \cup { [kind |-> "json", usage |-> u] : u \in Billable(FewUsages, hist, MaxHistory) }

NoConn == [aborted |-> FALSE, upstream |-> NoAnswer]

forwardCancelled_onAbort(c) == c.aborted

\* lines 97-108: fetch is called without a signal, and nothing in the handler
\* listens to the inbound request's abort: the forward and the reading of its
\* body are never cancelled
forwardCancelled(c) == FALSE

\* the client closes the inbound connection while the forward is under way
ClientAbort(r) ==
    /\ req[r].pc \in {"fetch", "json"}
    /\ ~conn[r].aborted
    /\ conn' = [conn EXCEPT ![r].aborted = TRUE]
    /\ UNCHANGED <<today, current_date, usage_records, request_history, req,
                   last_check, reconciler, reconciled, model_in, tier_out,
                   hist_resp, store, worker>>

\* the upstream settles what it answers to the forwarded request
UpstreamAnswer(r) ==
    /\ req[r].pc = "fetch"
    /\ conn[r].upstream = NoAnswer
    /\ \E a \in Answers(request_history) :
         conn' = [conn EXCEPT ![r].upstream = a]
    /\ UNCHANGED <<today, current_date, usage_records, request_history, req,
                   last_check, reconciler, reconciled, model_in, tier_out,
                   hist_resp, store, worker>>

\* ProxyFetchReturn for the answer the upstream has settled
ProxyFetchReturnConn(r) ==
    /\ conn[r].upstream # NoAnswer
    /\ ProxyFetchReturn(r)
    /\ req'[r].type = "server_error"
         <=> (forwardCancelled(conn[r]) \/ conn[r].upstream.kind = "network_error")

\* the accounting step for the answer the upstream has settled
ProxyJsonReturnConn(r) ==
    /\ ProxyJsonReturnFew(r)
    /\ IF ~forwardCancelled(conn[r]) /\ conn[r].upstream.kind = "json"
       THEN /\ req'[r].type = "upstream"
            /\ req'[r].usage = conn[r].upstream.usage
       ELSE req'[r].type = "server_error"

\* the response has been written, or dropped if the client is gone; the slot
\* serves the next connection
ConnectionClose(r) ==
    /\ req[r].pc = "done"
    /\ req' = [req EXCEPT ![r] = Idle]
    /\ conn' = [conn EXCEPT ![r] = NoConn]
    /\ UNCHANGED <<today, current_date, usage_records, request_history,
                   last_check, reconciler, reconciled, model_in, tier_out,
                   hist_resp, store, worker>>

(***************************************************************************)
(* src/routes/api.ts                                                       *)
(***************************************************************************)
\* GET /api/usage and GET /api/stats: checkAndResetDaily(), then getUsageStats(),
\* which only reads
ApiRead(op) ==
    /\ \E o \in checkAndResetDaily(usage_records, current_date, today) :
         /\ usage_records' = o.recs
         /\ current_date' = o.stored
         /\ today' = o.clock
         /\ last_check' = [op |-> op, rolled |-> o.ret, n |-> 1 - last_check.n,
                            rows |-> IF o.ret THEN Len(request_history)
                                     ELSE last_check.rows]
         /\ reconciled' = IF o.ret THEN NoneReconciled ELSE reconciled
    /\ UNCHANGED <<request_history, req, reconciler, harness>>

GetUsage == ApiRead("api")

GetStats == ApiRead("api")

\* a query parameter read as a number: absent or empty (the default applies),
\* a decimal integer, or text parseInt makes NaN of
Queries ==
    { [kind |-> "absent", n |-> 0], [kind |-> "nan", n |-> 0] }
    \cup { [kind |-> "int", n |-> i] : i \in -1..MaxRows }

\* parseInt(c.req.query(name) || default, 10)
parseIntQuery(q, default) ==
    IF q.kind = "absent" THEN [nan |-> FALSE, n |-> default]
    ELSE IF q.kind = "nan" THEN [nan |-> TRUE, n |-> 0]
    ELSE [nan |-> FALSE, n |-> q.n]

\* Math.min(x, cap): NaN when x is NaN
mathMin(x, cap) ==
    IF x.nan THEN x ELSE [nan |-> FALSE, n |-> IF x.n < cap THEN x.n ELSE cap]

\* the orders ORDER BY timestamp DESC may deliver the rows in: rows with equal
\* timestamps come in any order
newestFirst(hist) ==
    { f \in [1..Len(hist) -> 1..Len(hist)] :
        /\ \A i, j \in 1..Len(hist) : i # j => f[i] # f[j]
        /\ \A i, j \in 1..Len(hist) :
             i < j => hist[f[i]].timestamp >= hist[f[j]].timestamp }

\* getRequestHistory: SELECT ... ORDER BY timestamp DESC LIMIT ? OFFSET ?.
\* SQLite reads a negative LIMIT as no limit and a negative OFFSET as 0.
getRequestHistory(hist, limit, offset) ==
    LET skip == IF offset < 0 THEN 0 ELSE IF offset > Len(hist) THEN Len(hist) ELSE offset
        rest == Len(hist) - skip
        take == IF limit < 0 \/ limit > rest THEN rest ELSE limit
    IN { [k \in 1..take |-> hist[f[skip + k]]] : f \in newestFirst(hist) }

\* getRequestHistoryCount: SELECT COUNT(*)
getRequestHistoryCount(hist) == Len(hist)

NoResponse ==
    [status |-> 0, data |-> <<>>,
     pagination |-> [limit |-> 0, offset |-> 0, total |-> 0, hasMore |-> FALSE]]

\* GET /api/history: a NaN parameter is bound as NULL, which the statement
\* rejects; the catch answers 500
GetHistory ==
    /\ \E ql, qo \in Queries :
         LET limit == mathMin(parseIntQuery(ql, HISTORY_LIMIT_DEFAULT), HISTORY_LIMIT_MAX)
             offset == parseIntQuery(qo, 0)
             total == getRequestHistoryCount(request_history)
         IN IF limit.nan \/ offset.nan
            THEN hist_resp' = [NoResponse EXCEPT !.status = 500]
            ELSE \E history \in getRequestHistory(request_history, limit.n, offset.n) :
                   hist_resp' =
                     [status |-> 200, data |-> history,
                      pagination |-> [limit |-> limit.n, offset |-> offset.n,
                                      total |-> total,
                                      hasMore |-> offset.n + limit.n < total]]
    /\ UNCHANGED <<today, current_date, usage_records, request_history, req,
                   last_check, reconciler, reconciled, model_in, tier_out, store,
                   conn,
                   worker>>

(***************************************************************************)
(* src/lib/reconciliation.ts                                               *)
(***************************************************************************)
\* a row of the usage report (UsageResult): model, input_tokens, output_tokens
Row(m, i, o) == [model |-> m, input_tokens |-> i, output_tokens |-> o]

\* the reports the provider may hold for a day: each a sequence of pages, each
\* page the rows of its buckets; every page but the last carries a cursor.
\* EmptyReport is the report of a day nothing was billed on.
EmptyReport == << <<>> >>

OnePageReport == << <<Row(GPT_4O, 1, 0)>> >>

TwoPageReport == << <<Row(O4_MINI, 1, 1)>>, <<Row(GPT_4O, 2, 1), Row(O4_MINI, 0, 1)>> >>

Reports == {OnePageReport, TwoPageReport}

\* the date query parameter: given = present and non-empty; valid = new Date()
\* of it is a date
DateParams ==
    { [given |-> FALSE, valid |-> FALSE, day |-> 0],
      [given |-> TRUE, valid |-> FALSE, day |-> 0] }
    \cup { [given |-> TRUE, valid |-> TRUE, day |-> d] : d \in Days }

NoResult ==
    [success |-> FALSE, date |-> 0,
     premium |-> [before |-> 0, after |-> 0, added |-> 0],
     mini |-> [before |-> 0, after |-> 0, added |-> 0],
     details |-> 0]

\* next_page of a page that has one: the URL of the next page, or a cursor
\* token to be sent as a parameter of the next request
UrlCursors == {"url"}

AnyCursors == {"url", "cursor"}

\* nextPage is "none" while the variable is undefined
RcIdle ==
    [pc |-> "idle", targetDate |-> 0, premiumBefore |-> 0, miniBefore |-> 0,
     pageCount |-> 0, nextPage |-> "none", allResults |-> <<>>,
     result |-> NoResult]

\* throw new Error(...): the route answers 500 with success: false
RcFail(q) == [RcIdle EXCEPT !.pc = "done", !.targetDate = q.targetDate]

RECURSIVE tierTotal_inputOnly(_, _)
tierTotal_inputOnly(results, tier) ==
    IF results = <<>> THEN 0
    ELSE (IF getModelTier(Head(results).model) = tier
          THEN Head(results).input_tokens
          ELSE 0)
         + tierTotal_inputOnly(Tail(results), tier)

\* tierTotals[tier]: input_tokens + output_tokens over the rows of the tier
RECURSIVE tierTotal(_, _)
tierTotal(results, tier) ==
    IF results = <<>> THEN 0
    ELSE (IF getModelTier(Head(results).model) = tier
          THEN Head(results).input_tokens + Head(results).output_tokens
          ELSE 0)
         + tierTotal(Tail(results), tier)

Max0_noClamp(x) == x

\* Math.max(0, x)
Max0(x) == IF x > 0 THEN x ELSE 0

\* lines 201-252 and 53-108: resolve the date, read both rows, check the admin
\* key, request the first page
ReconcileStart ==
    /\ rc.pc = "idle"
    /\ \E date \in DateParams, hasKey \in BOOLEAN :
         LET targetDate == IF date.given THEN date.day ELSE today
             q == [RcIdle EXCEPT !.targetDate = targetDate,
                                 !.premiumBefore =
                                    getUsageRecord(usage_records, "premium").tokens_used,
                                 !.miniBefore =
                                    getUsageRecord(usage_records, "mini").tokens_used]
         IN IF date.given /\ ~date.valid
            THEN rc' = RcFail(RcIdle)
            ELSE IF ~hasKey
            THEN rc' = RcFail(q)
            ELSE rc' = [q EXCEPT !.pc = "page"]
    /\ UNCHANGED <<today, current_date, usage_records, request_history, req,
                   last_check, upstream_report, rc_prev, reconciled, harness>>

reconcileApply_addsTotal(q, recs) ==
    LET premiumDiff == tierTotal(q.allResults, "premium")
        miniDiff == tierTotal(q.allResults, "mini")
        r1 == IF premiumDiff > 0 THEN incrementTokens(recs, "premium", premiumDiff)
              ELSE recs
        r2 == IF miniDiff > 0 THEN incrementTokens(r1, "mini", miniDiff) ELSE r1
    IN [recs |-> r2,
        result |->
          [success |-> TRUE, date |-> q.targetDate,
           premium |-> [before |-> q.premiumBefore,
                        after |-> getUsageRecord(r2, "premium").tokens_used,
                        added |-> premiumDiff],
           mini |-> [before |-> q.miniBefore,
                     after |-> getUsageRecord(r2, "mini").tokens_used,
                     added |-> miniDiff],
           details |-> Len(q.allResults)]]

\* lines 335-398: the corrections, applied once every page has arrived
reconcileApply(q, recs) ==
    LET premiumDiff == Max0(tierTotal(q.allResults, "premium") - q.premiumBefore)
        miniDiff == Max0(tierTotal(q.allResults, "mini") - q.miniBefore)
        r1 == IF premiumDiff > 0 THEN incrementTokens(recs, "premium", premiumDiff)
              ELSE recs
        r2 == IF miniDiff > 0 THEN incrementTokens(r1, "mini", miniDiff) ELSE r1
    IN [recs |-> r2,
        result |->
          [success |-> TRUE, date |-> q.targetDate,
           premium |-> [before |-> q.premiumBefore,
                        after |-> getUsageRecord(r2, "premium").tokens_used,
                        added |-> premiumDiff],
           mini |-> [before |-> q.miniBefore,
                     after |-> getUsageRecord(r2, "mini").tokens_used,
                     added |-> miniDiff],
           details |-> Len(q.allResults)]]

fetchFailed_partial(q, recs) ==
    [rc |-> [RcFail(q) EXCEPT !.pageCount = q.pageCount + 1,
                              !.nextPage = q.nextPage],
     recs |-> reconcileApply(q, recs).recs]

\* lines 122-128 and 399-405: the request of page pageCount + 1 fails; the
\* error leaves fetchOpenAIUsage and reconcileUsage without any write, and the
\* rows of the earlier pages (allResults) are dropped with it
fetchFailed(q, recs) ==
    [rc |-> [RcFail(q) EXCEPT !.pageCount = q.pageCount + 1,
                              !.nextPage = q.nextPage],
     recs |-> recs]

\* lines 94-186, then 254-398 after the last page: a page request fails (the
\* fetch throws, the status is not OK, or the body does not parse), or its rows
\* are appended and either the next page is requested or the corrections are
\* applied; `logged` says whether the run's result is kept in rc_prev, and
\* `cursors` which kinds of next_page the provider's pages carry.  The next
\* request is fetch(nextPage), made in the same step: given a cursor token for
\* its URL, fetch throws.
ReconcilePageOf(logged, cursors) ==
    /\ rc.pc = "page"
    /\ \/ LET out == fetchFailed(rc, usage_records)
          IN /\ rc' = out.rc
             /\ usage_records' = out.recs
       \/ LET report == upstream_report[rc.targetDate]
              pageCount == rc.pageCount + 1
              q == [rc EXCEPT !.pageCount = pageCount,
                              !.allResults = @ \o report[pageCount]]
          IN IF pageCount < Len(report)
             THEN \E next_page \in cursors :
                    LET q2 == [q EXCEPT !.nextPage = next_page]
                    IN IF next_page = "cursor"
                       THEN LET out == fetchFailed(q2, usage_records)
                            IN /\ rc' = out.rc
                               /\ usage_records' = out.recs
                       ELSE /\ rc' = q2
                            /\ UNCHANGED usage_records
             ELSE LET out == reconcileApply([q EXCEPT !.nextPage = "none"],
                                            usage_records)
                  IN /\ usage_records' = out.recs
                     /\ rc' = [q EXCEPT !.pc = "done", !.nextPage = "none",
                                        !.result = out.result]
    /\ rc_prev' = IF logged /\ rc'.pc = "done" /\ rc'.result.success
                  THEN rc'.result ELSE rc_prev
    /\ reconciled' = IF rc'.pc = "done" /\ rc'.result.success
                     THEN [reconciled EXCEPT !["premium"] = @ + rc'.result.premium.added,
                                             !["mini"] = @ + rc'.result.mini.added]
                     ELSE reconciled
    /\ UNCHANGED <<today, current_date, request_history, req, last_check,
                   upstream_report, harness>>

ReconcilePage == ReconcilePageOf(FALSE, UrlCursors)

ReconcilePageLogged == ReconcilePageOf(TRUE, UrlCursors)

ReconcilePageCursor == ReconcilePageOf(FALSE, AnyCursors)

\* the route has answered; the next POST /api/reconcile may arrive
ReconcileFinish ==
    /\ rc.pc = "done"
    /\ rc' = RcIdle
    /\ UNCHANGED <<today, current_date, usage_records, request_history, req,
                   last_check, upstream_report, rc_prev, reconciled, harness>>

(***************************************************************************)
(* cloudflare-worker: the polling worker                                   *)
(*                                                                         *)
(* The worker and its D1 database are a separate deployment.  A statement  *)
(* sent to the database takes effect while the handler that sent it is     *)
(* suspended; each action below is one statement (or one outbound call)    *)
(* taking effect, followed by the handler's code up to its next `await`.   *)
(***************************************************************************)
\* cloudflare-worker/src/models.ts
WORKER_PREMIUM_MODELS ==
    << <<"g", "p", "t", "-", "4", "o">>,
       <<"g", "p", "t", "-", "4", "-", "t", "u", "r", "b", "o">>,
       <<"g", "p", "t", "-", "4">>,
       <<"o", "1", "-", "p", "r", "e", "v", "i", "e", "w">>,
       <<"o", "1", "-", "m", "i", "n", "i">>,
       <<"c", "h", "a", "t", "g", "p", "t", "-", "4", "o", "-", "l", "a", "t", "e", "s", "t">>,
       <<"g", "p", "t", "-", "4", "o", "-", "r", "e", "a", "l", "t", "i", "m", "e", "-", "p", "r", "e", "v", "i", "e", "w">> >>

WORKER_MINI_MODELS ==
    << <<"g", "p", "t", "-", "4", "o", "-", "m", "i", "n", "i">>,
       <<"g", "p", "t", "-", "3", ".", "5", "-", "t", "u", "r", "b", "o">> >>

\* the letters of the names, upper case and lower case
Letters ==
    << <<"A", "a">>, <<"B", "b">>, <<"C", "c">>, <<"E", "e">>, <<"G", "g">>,
       <<"H", "h">>, <<"I", "i">>, <<"L", "l">>, <<"M", "m">>, <<"N", "n">>,
       <<"O", "o">>, <<"P", "p">>, <<"R", "r">>, <<"S", "s">>, <<"T", "t">>,
       <<"U", "u">>, <<"V", "v">>, <<"W", "w">>, <<"X", "x">> >>

\* String.prototype.toLowerCase
toLowerCase(s) ==
    [i \in 1..Len(s) |->
        IF \E j \in 1..Len(Letters) : Letters[j][1] = s[i]
        THEN Letters[CHOOSE j \in 1..Len(Letters) : Letters[j][1] = s[i]][2]
        ELSE s[i]]

\* String.prototype.toUpperCase (used to write the names given to the classifier)
toUpperCase(s) ==
    [i \in 1..Len(s) |->
        IF \E j \in 1..Len(Letters) : Letters[j][2] = s[i]
        THEN Letters[CHOOSE j \in 1..Len(Letters) : Letters[j][2] = s[i]][1]
        ELSE s[i]]

worker_getModelTier_premiumFirst(model) ==
    IF SomePrefix(WORKER_PREMIUM_MODELS, toLowerCase(model)) THEN "premium"
    ELSE IF SomePrefix(WORKER_MINI_MODELS, toLowerCase(model)) THEN "mini"
    ELSE "premium"

\* models.ts getModelTier of the worker: the mini list is tried first
worker_getModelTier(model) ==
    IF SomePrefix(WORKER_MINI_MODELS, toLowerCase(model)) THEN "mini"
    ELSE IF SomePrefix(WORKER_PREMIUM_MODELS, toLowerCase(model)) THEN "premium"
    ELSE "premium"

\* the names the worker's classifier is tried on: every configured name cut
\* after any number of characters and followed by one of the suffixes, as
\* written, in upper case, and with an upper-case first half
WorkerPrefixes == { WORKER_PREMIUM_MODELS[i] : i \in 1..Len(WORKER_PREMIUM_MODELS) }
                    \cup { WORKER_MINI_MODELS[i] : i \in 1..Len(WORKER_MINI_MODELS) }

WorkerCuts == UNION { { SubSeq(p, 1, k) : k \in 0..Len(p) } : p \in WorkerPrefixes }

WorkerNames == { c \o suf : c \in WorkerCuts, suf \in Suffixes }

WorkerTierInputs ==
    WorkerNames
      \cup { toUpperCase(n) : n \in WorkerNames }
      \cup { toUpperCase(SubSeq(n, 1, Len(n) \div 2)) \o SubSeq(n, Len(n) \div 2 + 1, Len(n)) :
               n \in WorkerNames }

\* the cron trigger (scheduled) and POST /api/poll both call pollUsage
Polls == {"cron", "manual"}

\* parseInt(env.ALERT_THRESHOLD || '80', 10)
ALERT_THRESHOLD == 80

\* models.ts getTierLimit, with the limits of the environment
getTierLimit(tier) == IF tier = "premium" THEN PREMIUM_TIER_LIMIT ELSE MINI_TIER_LIMIT

\* Math.round((tokens / limit) * 100), halves rounded up
percentageOf(tokens, limit) == (200 * tokens + limit) \div (2 * limit)

\* for (const tier of ['premium', 'mini'])
AlertTiers == <<"premium", "mini">>

PollIdle == [pc |-> "idle", date |-> 0, tierTotals |-> [t \in Tiers |-> 0],
             k |-> 1, alertId |-> 0, alertsTriggered |-> 0]

NoWorker == [webhookUrl |-> FALSE,
             alerts |-> <<>>,
             latest |-> [t \in Tiers |-> 0],
             totals |-> [d \in Days |-> [t \in Tiers |-> 0]],
             started |-> 0,
             poll |-> [p \in Polls |-> PollIdle]]

\* SELECT COUNT(*) FROM alerts WHERE tier = ? AND created_at >= date AND sent = 1
wasAlertSentToday(alerts, tier, date) ==
    \E i \in 1..Len(alerts) : /\ alerts[i].tier = tier
                              /\ alerts[i].created_at >= date
                              /\ alerts[i].sent

\* UPDATE alerts SET sent = 1 WHERE id = ?
markAlertAsSent(alerts, alertId) == [alerts EXCEPT ![alertId].sent = TRUE]

\* checkAndSendAlerts from the head of the loop at position k: the tiers below
\* the threshold are passed over; at the first one at or above it the handler
\* asks the database whether an alert was sent, and waits; after the last
\* tier the poll returns
RECURSIVE loopFrom(_, _)
loopFrom(q, k) ==
    IF k > Len(AlertTiers) THEN [PollIdle EXCEPT !.alertsTriggered = q.alertsTriggered]
    ELSE IF percentageOf(q.tierTotals[AlertTiers[k]], getTierLimit(AlertTiers[k]))
              >= ALERT_THRESHOLD
         THEN [q EXCEPT !.pc = "asked", !.k = k]
         ELSE loopFrom(q, k + 1)

\* pollUsage up to `await fetchOpenAIUsage`
PollStart(p) ==
    /\ worker.poll[p].pc = "idle"
    /\ worker.started < MaxPolls
    /\ worker' = [worker EXCEPT !.started = @ + 1,
                                !.poll[p] = [PollIdle EXCEPT !.pc = "fetch",
                                                             !.date = today]]
    /\ UNCHANGED <<today, current_date, usage_records, request_history, req,
                   last_check, reconciler, reconciled, model_in, tier_out,
                   hist_resp, store, conn>>

\* the provider answers with the usage of the poll's day (which only grows
\* while the day lasts), or the fetch fails and pollUsage rethrows
PollFetchReturn(p) ==
    LET q == worker.poll[p] IN
    /\ q.pc = "fetch"
    /\ \/ worker' = [worker EXCEPT !.poll[p] = PollIdle]
       \/ \E totals \in [Tiers -> 0..MaxUsage] :
            /\ \A t \in Tiers : totals[t] >= worker.totals[q.date][t]
            /\ q.date # today => totals = worker.totals[q.date]
            /\ worker' = [worker EXCEPT !.totals[q.date] = totals,
                                        !.poll[p] = [q EXCEPT !.pc = "snapshot",
                                                              !.tierTotals = totals]]
    /\ UNCHANGED <<today, current_date, usage_records, request_history, req,
                   last_check, reconciler, reconciled, model_in, tier_out,
                   hist_resp, store, conn>>

\* the snapshots of both tiers are written, then checkAndSendAlerts starts
PollSnapshot(p) ==
    LET q == worker.poll[p] IN
    /\ q.pc = "snapshot"
    /\ worker' = [worker EXCEPT !.latest = q.tierTotals,
                                !.poll[p] = loopFrom(q, 1)]
    /\ UNCHANGED <<today, current_date, usage_records, request_history, req,
                   last_check, reconciler, reconciled, model_in, tier_out,
                   hist_resp, store, conn>>

\* wasAlertSentToday answers: nothing to do for this tier, or the INSERT of
\* the alert is sent
PollAsked(p) ==
    LET q == worker.poll[p] IN
    /\ q.pc = "asked"
    /\ worker' = [worker EXCEPT !.poll[p] =
                     IF wasAlertSentToday(worker.alerts, AlertTiers[q.k], q.date)
                     THEN loopFrom(q, q.k + 1)
                     ELSE [q EXCEPT !.pc = "insert"]]
    /\ UNCHANGED <<today, current_date, usage_records, request_history, req,
                   last_check, reconciler, reconciled, model_in, tier_out,
                   hist_resp, store, conn>>

\* INSERT INTO alerts ... RETURNING id (sent defaults to FALSE, created_at to
\* the database's clock); then the webhook is called if one is configured
PollInsert(p) ==
    LET q == worker.poll[p]
        tier == AlertTiers[q.k]
        row == [tier |-> tier, created_at |-> today, sent |-> FALSE,
                delivered |-> FALSE,
                percentage |-> percentageOf(q.tierTotals[tier], getTierLimit(tier))]
        q1 == [q EXCEPT !.alertId = Len(worker.alerts) + 1]
    IN
    /\ q.pc = "insert"
    /\ worker' = [worker EXCEPT
                    !.alerts = Append(@, row),
                    !.poll[p] =
                       IF worker.webhookUrl
                       THEN [q1 EXCEPT !.pc = "webhook"]
                       ELSE loopFrom([q1 EXCEPT !.alertsTriggered = @ + 1], q.k + 1)]
    /\ UNCHANGED <<today, current_date, usage_records, request_history, req,
                   last_check, reconciler, reconciled, model_in, tier_out,
                   hist_resp, store, conn>>

\* sendWebhookAlert returns: the webhook took the alert, or it failed and the
\* catch block logs the failure
PollWebhook(p) ==
    LET q == worker.poll[p] IN
    /\ q.pc = "webhook"
    /\ \/ worker' = [worker EXCEPT !.alerts[q.alertId].delivered = TRUE,
                                   !.poll[p] = [q EXCEPT !.pc = "mark"]]
       \/ worker' = [worker EXCEPT
                       !.poll[p] = loopFrom([q EXCEPT !.alertsTriggered = @ + 1],
                                            q.k + 1)]
    /\ UNCHANGED <<today, current_date, usage_records, request_history, req,
                   last_check, reconciler, reconciled, model_in, tier_out,
                   hist_resp, store, conn>>

\* markAlertAsSent takes effect
PollMark(p) ==
    LET q == worker.poll[p] IN
    /\ q.pc = "mark"
    /\ worker' = [worker EXCEPT
                    !.alerts = markAlertAsSent(@, q.alertId),
                    !.poll[p] = loopFrom([q EXCEPT !.alertsTriggered = @ + 1],
                                         q.k + 1)]
    /\ UNCHANGED <<today, current_date, usage_records, request_history, req,
                   last_check, reconciler, reconciled, model_in, tier_out,
                   hist_resp, store, conn>>

(***************************************************************************)
(* The wall clock                                                          *)
(***************************************************************************)
\* midnight UTC passes
Tick ==
    /\ today < MaxDay
    /\ today' = today + 1
    /\ UNCHANGED <<current_date, usage_records, request_history, req, last_check,
                   reconciler, reconciled, harness>>

(***************************************************************************)
(* Specifications                                                          *)
(***************************************************************************)
\* initDatabase on a new database file: initializeConfig stores today's date
\* and creates both rows
Init ==
    /\ today = 0
    /\ current_date = today
    /\ usage_records =
         [t \in Tiers |-> [tier |-> t, date |-> today, tokens_used |-> 0,
                           limit |-> TierLimit(t)]]
    /\ request_history = <<>>
    /\ req = [r \in Req |-> Idle]
    /\ last_check = [op |-> "none", rolled |-> FALSE, n |-> 0, rows |-> 0]
    /\ rc = RcIdle
    /\ rc_prev = NoResult
    /\ reconciled = NoneReconciled
    /\ upstream_report = [d \in Days |-> EmptyReport]
    /\ model_in = <<>>
    /\ tier_out = "none"
    /\ hist_resp = NoResponse
    /\ store = NoStore
    /\ conn = [r \in Req |-> NoConn]
    /\ worker = NoWorker

\* the same, with any of the reports at the provider for each day
InitRec ==
    /\ today = 0
    /\ current_date = today
    /\ usage_records =
         [t \in Tiers |-> [tier |-> t, date |-> today, tokens_used |-> 0,
                           limit |-> TierLimit(t)]]
    /\ request_history = <<>>
    /\ req = [r \in Req |-> Idle]
    /\ last_check = [op |-> "none", rolled |-> FALSE, n |-> 0, rows |-> 0]
    /\ rc = RcIdle
    /\ rc_prev = NoResult
    /\ reconciled = NoneReconciled
    /\ upstream_report \in [Days -> Reports]
    /\ model_in = <<>>
    /\ tier_out = "none"
    /\ hist_resp = NoResponse
    /\ store = NoStore
    /\ conn = [r \in Req |-> NoConn]
    /\ worker = NoWorker

\* the same, with the two-page report for the first day and the one-page
\* report for every later day
InitLog ==
    /\ today = 0
    /\ current_date = today
    /\ usage_records =
         [t \in Tiers |-> [tier |-> t, date |-> today, tokens_used |-> 0,
                           limit |-> TierLimit(t)]]
    /\ request_history = <<>>
    /\ req = [r \in Req |-> Idle]
    /\ last_check = [op |-> "none", rolled |-> FALSE, n |-> 0, rows |-> 0]
    /\ rc = RcIdle
    /\ rc_prev = NoResult
    /\ reconciled = NoneReconciled
    /\ upstream_report = [d \in Days |-> IF d = 0 THEN TwoPageReport ELSE OnePageReport]
    /\ model_in = <<>>
    /\ tier_out = "none"
    /\ hist_resp = NoResponse
    /\ store = NoStore
    /\ conn = [r \in Req |-> NoConn]
    /\ worker = NoWorker

\* the logs the history read is tried on: up to MaxRows mini requests of one
\* token each, accounted on days that do not go back
RECURSIVE LogsOf(_)
LogsOf(n) ==
    IF n = 0 THEN { <<>> }
    ELSE LET shorter == LogsOf(n - 1)
         IN shorter \cup
            { addRequestHistory(p[1], [timestamp |-> p[2], model |-> O4_MINI,
                                       prompt_tokens |-> 1, completion_tokens |-> 0,
                                       total_tokens |-> 1,
                                       request_path |-> "/v1/chat/completions",
                                       status |-> 200, tier |-> "mini"]) :
                p \in { p \in shorter \X Days :
                          /\ Len(p[1]) = n - 1
                          /\ p[1] = <<>> \/ p[1][Len(p[1])].timestamp <= p[2] } }

\* a database that holds one of these logs on the last day, the mini row
\* counting the tokens of that day's requests
InitHist ==
    /\ today = MaxDay
    /\ current_date = today
    /\ request_history \in LogsOf(MaxRows)
    /\ usage_records =
         [t \in Tiers |->
            [tier |-> t, date |-> today,
             tokens_used |-> IF t = "mini"
                             THEN Cardinality({ i \in 1..Len(request_history) :
                                                  request_history[i].timestamp = today })
                             ELSE 0,
             limit |-> TierLimit(t)]]
    /\ req = [r \in Req |-> Idle]
    /\ last_check = [op |-> "none", rolled |-> FALSE, n |-> 0, rows |-> 0]
    /\ rc = RcIdle
    /\ rc_prev = NoResult
    /\ reconciled = NoneReconciled
    /\ upstream_report = [d \in Days |-> EmptyReport]
    /\ model_in = <<>>
    /\ tier_out = "none"
    /\ hist_resp = NoResponse
    /\ store = NoStore
    /\ conn = [r \in Req |-> NoConn]
    /\ worker = NoWorker

NextHist == GetHistory

SpecHist == InitHist /\ [][NextHist]_vars

\* getModelTier alone, on one of the names of TierInputs
InitTier ==
    /\ today = 0
    /\ current_date = today
    /\ usage_records =
         [t \in Tiers |-> [tier |-> t, date |-> today, tokens_used |-> 0,
                           limit |-> TierLimit(t)]]
    /\ request_history = <<>>
    /\ req = [r \in Req |-> Idle]
    /\ last_check = [op |-> "none", rolled |-> FALSE, n |-> 0, rows |-> 0]
    /\ rc = RcIdle
    /\ rc_prev = NoResult
    /\ reconciled = NoneReconciled
    /\ upstream_report = [d \in Days |-> EmptyReport]
    /\ model_in \in TierInputs
    /\ tier_out = "none"
    /\ hist_resp = NoResponse
    /\ store = NoStore
    /\ conn = [r \in Req |-> NoConn]
    /\ worker = NoWorker

Classify ==
    /\ tier_out = "none"
    /\ tier_out' = getModelTier(model_in)
    /\ UNCHANGED <<today, current_date, usage_records, request_history, req,
                   last_check, rc, upstream_report, rc_prev, reconciled, model_in,
                   hist_resp, store, conn,
                   worker>>

NextTier == Classify

SpecTier == InitTier /\ [][NextTier]_vars

\* two concurrent proxy requests, the stats reads and the clock
Next ==
    \/ \E r \in Req : ProxyStart(r)
    \/ \E r \in Req : ProxyAdmit(r)
    \/ \E r \in Req : ProxyFetchReturn(r)
    \/ \E r \in Req : ProxyJsonReturnFew(r)
    \/ \E r \in Req : ProxyFinish(r)
    \/ GetUsage
    \/ GetStats
    \/ Tick

Spec == Init /\ [][Next]_vars

\* one proxy request at a time, with every usage object within the bounds
NextSeq ==
    \/ ProxyStart("r1")
    \/ ProxyAdmit("r1")
    \/ ProxyFetchReturn("r1")
    \/ ProxyJsonReturn("r1")
    \/ ProxyFinish("r1")
    \/ GetUsage
    \/ GetStats
    \/ Tick

SpecSeq == Init /\ [][NextSeq]_vars

\* one proxy request at a time and the reconciliation
NextRec ==
    \/ ProxyStart("r1")
    \/ ProxyAdmit("r1")
    \/ ProxyFetchReturn("r1")
    \/ ProxyJsonReturnRec("r1")
    \/ ProxyFinish("r1")
    \/ ReconcileStart
    \/ ReconcilePage
    \/ ReconcileFinish
    \/ GetUsage
    \/ GetStats
    \/ Tick

SpecRec == InitRec /\ [][NextRec]_vars

\* the same, with the result of each successful reconciliation recorded
NextLog ==
    \/ ProxyStart("r1")
    \/ ProxyAdmit("r1")
    \/ ProxyFetchReturn("r1")
    \/ ProxyJsonReturnRec("r1")
    \/ ProxyFinish("r1")
    \/ ReconcileStart
    \/ ReconcilePageLogged
    \/ ReconcileFinish
    \/ GetUsage
    \/ Tick

SpecLog == InitLog /\ [][NextLog]_vars

\* one proxy request at a time, each keeping the date it was received under,
\* the usage read and the clock
NextDay ==
    \/ ProxyStartDated("r1")
    \/ ProxyAdmit("r1")
    \/ ProxyFetchReturn("r1")
    \/ ProxyJsonReturnFew("r1")
    \/ ProxyFinish("r1")
    \/ GetUsage
    \/ Tick

SpecDay == Init /\ [][NextDay]_vars

\* one proxy request at a time, the upstream also answering with usage
\* objects the history table does not take
NextStore ==
    \/ ProxyStart("r1")
    \/ ProxyAdmit("r1")
    \/ ProxyFetchReturn("r1")
    \/ ProxyJsonReturnStore("r1")
    \/ ProxyFinish("r1")
    \/ GetUsage
    \/ Tick

SpecStore == Init /\ [][NextStore]_vars

\* two proxy requests, one per slot, and any number of reconciliations, all
\* within one day
NextConc ==
    \/ \E r \in Req : ProxyStart(r)
    \/ \E r \in Req : ProxyAdmit(r)
    \/ \E r \in Req : ProxyFetchReturn(r)
    \/ \E r \in Req : ProxyJsonReturnFew(r)
    \/ ReconcileStart
    \/ ReconcilePage
    \/ ReconcileFinish

SpecConc == InitLog /\ [][NextConc]_vars

\* two proxy requests, one per slot, the reconciliation, the usage read and
\* the clock
NextOpen ==
    \/ \E r \in Req : ProxyStart(r)
    \/ \E r \in Req : ProxyAdmit(r)
    \/ \E r \in Req : ProxyFetchReturn(r)
    \/ \E r \in Req : ProxyJsonReturnFew(r)
    \/ ReconcileStart
    \/ ReconcilePage
    \/ ReconcileFinish
    \/ GetUsage
    \/ Tick

SpecOpen == InitLog /\ [][NextOpen]_vars

\* the day before day 0
Yesterday == 0 - 1

\* initDatabase on the file the process left the day before: initializeConfig
\* keeps the stored date and both rows as it finds them
InitStale ==
    /\ today = 0
    /\ current_date = Yesterday
    /\ usage_records =
         [t \in Tiers |-> [tier |-> t, date |-> Yesterday, tokens_used |-> 0,
                           limit |-> TierLimit(t)]]
    /\ request_history = <<>>
    /\ req = [r \in Req |-> Idle]
    /\ last_check = [op |-> "none", rolled |-> FALSE, n |-> 0, rows |-> 0]
    /\ rc = RcIdle
    /\ rc_prev = NoResult
    /\ reconciled = NoneReconciled
    /\ upstream_report = [d \in Days |-> EmptyReport]
    /\ model_in = <<>>
    /\ tier_out = "none"
    /\ hist_resp = NoResponse
    /\ store = NoStore
    /\ conn = [r \in Req |-> NoConn]
    /\ worker = NoWorker

\* one proxy request at a time, the usage read and the clock, from there
NextStale ==
    \/ ProxyStart("r1")
    \/ ProxyAdmit("r1")
    \/ ProxyFetchReturn("r1")
    \/ ProxyJsonReturnFew("r1")
    \/ ProxyFinish("r1")
    \/ GetUsage
    \/ Tick

SpecStale == InitStale /\ [][NextStale]_vars

\* initDatabase on any database file, then the operations on the table
InitFile ==
    /\ today \in Days
    /\ current_date = today
    /\ usage_records =
         [t \in Tiers |-> [tier |-> t, date |-> today, tokens_used |-> 0,
                           limit |-> TierLimit(t)]]
    /\ request_history = <<>>
    /\ req = [r \in Req |-> Idle]
    /\ last_check = [op |-> "none", rolled |-> FALSE, n |-> 0, rows |-> 0]
    /\ rc = RcIdle
    /\ rc_prev = NoResult
    /\ reconciled = NoneReconciled
    /\ upstream_report = [d \in Days |-> EmptyReport]
    /\ model_in = <<>>
    /\ tier_out = "none"
    /\ hist_resp = NoResponse
    /\ store \in { f \in Files :
                     /\ f.stored <= today
                     /\ \A x \in f.rows : x.date <= today }
    /\ conn = [r \in Req |-> NoConn]
    /\ worker = NoWorker

NextFile ==
    \/ InitDatabase
    \/ StoreRollover
    \/ StoreIncrement
    \/ StoreRead
    \/ Tick

SpecFile == InitFile /\ [][NextFile]_vars

\* the reconciliation alone, the provider's pages carrying either kind of
\* next_page, with the usage read and the clock
NextPage ==
    \/ ReconcileStart
    \/ ReconcilePageCursor
    \/ ReconcileFinish
    \/ GetUsage
    \/ Tick

SpecPage == InitRec /\ [][NextPage]_vars

\* one proxy request at a time, with its client, which may abort, and the
\* upstream; the event loop runs the handler's continuation once the promise
\* it awaits is settled
NextConn ==
    \/ ProxyStart("r1")
    \/ ProxyAdmit("r1")
    \/ UpstreamAnswer("r1")
    \/ ClientAbort("r1")
    \/ ProxyFetchReturnConn("r1")
    \/ ProxyJsonReturnConn("r1")
    \/ ConnectionClose("r1")
    \/ GetUsage
    \/ Tick

SpecConn ==
    /\ Init
    /\ [][NextConn]_vars
    /\ WF_vars(ProxyFetchReturnConn("r1"))
    /\ WF_vars(ProxyJsonReturnConn("r1"))

\* the worker's getModelTier alone, on one of the names of WorkerTierInputs
InitWorkerTier ==
    /\ today = 0
    /\ current_date = today
    /\ usage_records =
         [t \in Tiers |-> [tier |-> t, date |-> today, tokens_used |-> 0,
                           limit |-> TierLimit(t)]]
    /\ request_history = <<>>
    /\ req = [r \in Req |-> Idle]
    /\ last_check = [op |-> "none", rolled |-> FALSE, n |-> 0, rows |-> 0]
    /\ rc = RcIdle
    /\ rc_prev = NoResult
    /\ reconciled = NoneReconciled
    /\ upstream_report = [d \in Days |-> EmptyReport]
    /\ model_in \in WorkerTierInputs
    /\ tier_out = "none"
    /\ hist_resp = NoResponse
    /\ store = NoStore
    /\ conn = [r \in Req |-> NoConn]
    /\ worker = NoWorker

WorkerClassify ==
    /\ tier_out = "none"
    /\ tier_out' = worker_getModelTier(model_in)
    /\ UNCHANGED <<today, current_date, usage_records, request_history, req,
                   last_check, rc, upstream_report, rc_prev, reconciled, model_in,
                   hist_resp, store, conn, worker>>

NextWorkerTier == WorkerClassify

SpecWorkerTier == InitWorkerTier /\ [][NextWorkerTier]_vars

\* the polling worker: the cron and the manual poll interleaved, with or
\* without a webhook, and the clock
InitAlert ==
    /\ today = 0
    /\ current_date = today
    /\ usage_records =
         [t \in Tiers |-> [tier |-> t, date |-> today, tokens_used |-> 0,
                           limit |-> TierLimit(t)]]
    /\ request_history = <<>>
    /\ req = [r \in Req |-> Idle]
    /\ last_check = [op |-> "none", rolled |-> FALSE, n |-> 0, rows |-> 0]
    /\ rc = RcIdle
    /\ rc_prev = NoResult
    /\ reconciled = NoneReconciled
    /\ upstream_report = [d \in Days |-> EmptyReport]
    /\ model_in = <<>>
    /\ tier_out = "none"
    /\ hist_resp = NoResponse
    /\ store = NoStore
    /\ conn = [r \in Req |-> NoConn]
    /\ \E url \in BOOLEAN : worker = [NoWorker EXCEPT !.webhookUrl = url]

NextAlert ==
    \/ \E p \in Polls : \/ PollStart(p)
                        \/ PollFetchReturn(p)
                        \/ PollSnapshot(p)
                        \/ PollAsked(p)
                        \/ PollInsert(p)
                        \/ PollWebhook(p)
                        \/ PollMark(p)
    \/ Tick

SpecAlert == InitAlert /\ [][NextAlert]_vars

(***************************************************************************)
(* Properties                                                              *)
(***************************************************************************)
used(t) == usage_records[t].tokens_used

OtherTier(t) == IF t = "premium" THEN "mini" ELSE "premium"

\* request r passes the point of the admission check in this step, with a body
\* that names a model
AdmissionCheck(r) ==
    /\ req[r].pc = "body"
    /\ req'[r].pc # "body"
    /\ req'[r].model # <<>>

\* C1: an admission check denies with the quota error exactly when, in the
\* state it reads, tokens_used of the tier of the request's model is >= that
\* tier's limit, whatever the other tier's usage is.
C1_DenyIffAtLimit ==
    [][\A r \in Req :
         AdmissionCheck(r) =>
           LET t == getModelTier(req'[r].model) IN
           (req'[r].type = "rate_limit_error" /\ req'[r].status = 429)
             <=> usage_records[t].tokens_used >= usage_records[t].limit]_vars

\* a mini request is denied while premium is below its limit, and a premium
\* request is forwarded at the same moment
C1_Witness ==
    \E r, r2 \in Req :
      /\ req[r].type = "rate_limit_error"
      /\ req[r].tier = "mini"
      /\ used("mini") >= MINI_TIER_LIMIT
      /\ used("premium") < PREMIUM_TIER_LIMIT
      /\ req[r2].pc = "fetch"
      /\ req[r2].tier = "premium"

\* C2: a request that meets tokens_used >= limit at its check is answered at
\* once without being forwarded, the check changes no counter and appends no
\* history row, and all the denied request does afterwards is end.
C2_DeniedNotForwardedNotAccounted ==
    [][\A r \in Req :
         /\ (AdmissionCheck(r) /\ used(getModelTier(req'[r].model))
                                    >= usage_records[getModelTier(req'[r].model)].limit)
              => /\ req'[r].pc = "done"
                 /\ ~req'[r].forwarded
                 /\ usage_records' = usage_records
                 /\ request_history' = request_history
         /\ (req[r].type = "rate_limit_error" /\ req'[r] # req[r])
              => /\ ~req[r].forwarded
                 /\ req'[r] = Idle
                 /\ usage_records' = usage_records
                 /\ request_history' = request_history]_vars

\* a premium request has been denied after one request was accounted
C2_Witness ==
    \E r \in Req :
      /\ req[r].type = "rate_limit_error"
      /\ req[r].tier = "premium"
      /\ ~req[r].forwarded
      /\ Len(request_history) = 1
      /\ used("premium") = PREMIUM_TIER_LIMIT

\* C3: after any sequence of admitted, forwarded and accounted requests each
\* tier's tokens_used is <= its limit.
C3_NeverOverLimit ==
    \A t \in Tiers : usage_records[t].tokens_used <= usage_records[t].limit

\* a checkAndResetDaily() call is made in this step
RolloverCall == last_check'.n # last_check.n

\* C4: within a day (the stored date unchanged) no step lowers a tier's
\* tokens_used; a step that lowers it is a rollover, which advances the
\* stored date and leaves the counter at exactly 0.
C4_MonotoneWithinDay ==
    [][\A t \in Tiers :
         /\ current_date' = current_date => used(t)' >= used(t)
         /\ used(t)' < used(t)
              => /\ RolloverCall
                 /\ last_check'.rolled
                 /\ current_date' # current_date
                 /\ used(t)' = 0]_vars

\* the rollover has reset counters that a request and a reconciliation had
\* raised the day before
C4_Witness ==
    /\ current_date = 1
    /\ last_check.rolled
    /\ \A t \in Tiers : used(t) = 0
    /\ Len(request_history) = 1
    /\ request_history[1].timestamp = 0
    /\ rc.pc = "done"
    /\ rc.result.success
    /\ rc.result.premium.added > 0

\* C5: a checkAndResetDaily() call made while the stored date differs from the
\* clock's date sets both tiers' tokens_used to 0, stores the clock's date and
\* returns true, whoever makes it; and no step advances the stored date or
\* resets a counter in any other way.
C5_RolloverResetsBoth ==
    [][/\ (RolloverCall /\ current_date # today)
            => /\ \A t \in Tiers : used(t)' = 0
               /\ current_date' = today
               /\ last_check'.rolled
       /\ (current_date' # current_date \/ \E t \in Tiers : used(t)' < used(t))
            => /\ RolloverCall
               /\ \A t \in Tiers : used(t)' = 0
               /\ current_date' = today]_vars

\* a stats read has rolled the ledger over while a request admitted the day
\* before is still waiting for its upstream body
C5_Witness ==
    /\ last_check.rolled
    /\ last_check.op = "api"
    /\ current_date = 1
    /\ \A t \in Tiers : used(t) = 0
    /\ Len(request_history) >= 1
    /\ \E r \in Req : req[r].pc = "json"

\* C6: a checkAndResetDaily() call made while the stored date equals the
\* clock's date returns false and leaves both usage rows and the stored date
\* as they were; this covers the second call of the day of a rollover.
C6_IdempotentWithinDay ==
    [][(RolloverCall /\ current_date = today)
         => /\ ~last_check'.rolled
            /\ usage_records' = usage_records
            /\ current_date' = current_date]_vars

\* on the day of the rollover a later call, by the proxy, has returned false
\* and the tokens accounted since the rollover are still there
C6_Witness ==
    /\ ~last_check.rolled
    /\ last_check.op = "proxy"
    /\ current_date = 1
    /\ today = 1
    /\ used("premium") > 0
    /\ used("mini") > 0

\* C7: every model name that begins with a configured mini-tier prefix is
\* classified as mini.
C7_MiniPrefixIsMini ==
    (tier_out # "none" /\ SomePrefix(MINI_MODELS, model_in)) => tier_out = "mini"

\* C8: getModelTier returns premium or mini for every name, and premium for a
\* name that begins with no prefix of either list.
C8_TotalDefaultPremium ==
    tier_out # "none"
      => /\ tier_out \in Tiers
         /\ (~SomePrefix(PREMIUM_MODELS, model_in) /\ ~SomePrefix(MINI_MODELS, model_in))
              => tier_out = "premium"

\* an unknown name has been classified as premium
C8_Witness ==
    /\ model_in = <<"g", "p", "t", "-", "4", "-", "2", "0", "2", "5">>
    /\ tier_out = "premium"

C10_StreamingNeverAccounted ==
    [][\A r \in Req :
         (req'[r] # req[r] /\ (req[r].stream \/ req'[r].stream))
           => /\ \A t \in Tiers : used(t)' <= used(t)
              /\ request_history' = request_history]_vars

\* a streaming request was forwarded and answered 400 upstream, and another
\* 200; nothing was accounted
C10_Witness ==
    \E r, r2 \in Req :
      /\ req[r].type = "stream" /\ req[r].stream /\ req[r].status = 400
      /\ req[r2].type = "stream" /\ req[r2].stream /\ req[r2].status = 200
      /\ req[r].forwarded /\ req[r2].forwarded
      /\ request_history = <<>>
      /\ \A t \in Tiers : used(t) = 0

(***************************************************************************)
(* Reconciliation                                                          *)
(***************************************************************************)
\* the rows of all pages of a report, in order
RECURSIVE Flatten(_)
Flatten(pages) ==
    IF pages = <<>> THEN <<>> ELSE Head(pages) \o Flatten(Tail(pages))

\* what the provider reports for tier t on day d
upstreamTotal(d, t) == tierTotal(Flatten(upstream_report[d]), t)

\* the before value a run holds for tier t, and tier t's part of a result
beforeOf(q, t) == IF t = "premium" THEN q.premiumBefore ELSE q.miniBefore

resultOf(res, t) == IF t = "premium" THEN res.premium ELSE res.mini

\* the run reads both rows and requests the first page in this step
ReconcileReads == rc.pc = "idle" /\ rc'.pc = "page"

\* the last page arrives and the run applies its corrections in this step
ReconcileApplies == rc.pc = "page" /\ rc'.pc = "done" /\ rc'.result.success

C13_FailureChangesNothing ==
    [][(rc' # rc /\ ~ReconcileApplies)
         => /\ usage_records' = usage_records
            /\ request_history' = request_history
            /\ current_date' = current_date
            /\ rc'.pc = "done" => (~rc'.result.success /\ rc'.allResults = <<>>)
            /\ rc.pc = "done" => rc' = RcIdle]_vars

\* the second page of a report failed after the first page had delivered
\* rows; both counters are still 0
C13_Witness ==
    /\ rc.pc = "done"
    /\ ~rc.result.success
    /\ rc.pageCount = 2
    /\ Len(upstream_report[rc.targetDate]) = 2
    /\ upstream_report[rc.targetDate][1] # <<>>
    /\ \A t \in Tiers : used(t) = 0
    /\ request_history = <<>>

(***************************************************************************)
(* Concurrency                                                             *)
(***************************************************************************)
\* the total_tokens of the history rows of tier t
RECURSIVE histTierSum(_, _)
histTierSum(hist, t) ==
    IF hist = <<>> THEN 0
    ELSE (IF Head(hist).tier = t THEN Head(hist).total_tokens ELSE 0)
         + histTierSum(Tail(hist), t)

\* C14: with no rollover in between, whatever the interleaving of the accounting
\* of concurrent requests and of reconciliations, each tier's tokens_used is its
\* initial value (0) plus the sum of the amounts applied to it: the
\* total_tokens of every request accounted to the tier plus everything the
\* reconciliations added to it.
C14_NoLostIncrement ==
    \A t \in Tiers : used(t) = histTierSum(request_history, t) + reconciled[t]

\* two premium requests, both admitted at 0, and a reconciliation that read
\* the counter at 0 have all added their amounts to the premium counter
C14_Witness ==
    /\ \A r \in Req : /\ req[r].type = "upstream"
                       /\ req[r].tier = "premium"
                       /\ req[r].usage.total_tokens = MaxTok
    /\ rc.pc = "done"
    /\ rc.result.success
    /\ rc.result.premium.before = 0
    /\ rc.result.premium.added = upstreamTotal(rc.targetDate, "premium")
    /\ rc.result.premium.added > 0
    /\ used("premium") = 2 * MaxTok + rc.result.premium.added

(***************************************************************************)
(* Client input errors                                                     *)
(***************************************************************************)
\* C15: a request whose body does not parse or names no model is answered 400
\* invalid_request_error by the step that reads its body: no tier is resolved
\* for it, it is not forwarded, and neither that step nor anything the request
\* does afterwards changes a usage row or the history.
C15_ClientInputError ==
    [][\A r \in Req :
         /\ (req[r].pc = "body" /\ req'[r].pc # "body" /\ req'[r].model = <<>>)
              => /\ req'[r].pc = "done"
                 /\ req'[r].status = 400
                 /\ req'[r].type = "invalid_request_error"
                 /\ req'[r].tier = "none"
                 /\ ~req'[r].forwarded
                 /\ usage_records' = usage_records
                 /\ request_history' = request_history
         /\ (req[r].type = "invalid_request_error" /\ req'[r] # req[r])
              => /\ ~req[r].forwarded
                 /\ req'[r] = Idle
                 /\ usage_records' = usage_records
                 /\ request_history' = request_history]_vars

\* a request was rejected for its body while the other one, admitted, is
\* waiting for the upstream; the ledger holds what was accounted before
C15_Witness ==
    \E r, r2 \in Req :
      /\ req[r].type = "invalid_request_error"
      /\ req[r].status = 400
      /\ req[r].tier = "none"
      /\ ~req[r].forwarded
      /\ req[r2].pc = "fetch"
      /\ Len(request_history) = 1
      /\ used(request_history[1].tier) = request_history[1].total_tokens

(***************************************************************************)
(* The history read                                                        *)
(***************************************************************************)
\* C16: a history read that answers returns at most HISTORY_LIMIT_MAX rows,
\* reports a limit <= HISTORY_LIMIT_MAX and an offset >= 0, returns the rows
\* newest first, and says hasMore exactly when rows exist beyond the returned
\* page, for every limit and offset asked for.
C16_HistoryPage ==
    hist_resp.status = 200 =>
      LET page == hist_resp.pagination
          n == Len(hist_resp.data)
          skipped == IF page.offset < 0 THEN 0 ELSE page.offset
      IN /\ n <= HISTORY_LIMIT_MAX
         /\ page.limit <= HISTORY_LIMIT_MAX
         /\ page.offset >= 0
         /\ \A i, j \in 1..n : i < j => hist_resp.data[i].timestamp
                                           >= hist_resp.data[j].timestamp
         /\ page.total = Len(request_history)
         /\ page.hasMore <=> (skipped + n < page.total)

(***************************************************************************)
(* Rollover and accounting                                                 *)
(***************************************************************************)
\* C17: the accounting of a request that was received under one stored date
\* and whose upstream body arrives after the ledger has rolled over to a later
\* date adds nothing to the new day's counters.
C17_NoIncrementAcrossRollover ==
    [][\A r \in Req :
         (req[r].pc = "json" /\ req[r].day # current_date)
           => \A t \in Tiers : used(t)' = used(t)]_vars

\* C18: every operation on the counters runs the rollover check first: the
\* admission check, the accounting of a response and both ledger steps of a
\* reconciliation (its read and its correction) find the stored date equal to
\* the clock's date, and a usage or stats read leaves it equal.
C18_RolloverCheckedFirst ==
    [][/\ (\E r \in Req : AdmissionCheck(r)) => current_date = today
       /\ (\E r \in Req : req[r].pc = "json" /\ \E t \in Tiers : used(t)' # used(t))
            => current_date = today
       /\ (ReconcileReads \/ ReconcileApplies) => current_date = today
       /\ RolloverCall => current_date' = today']_vars

\* C19: the amount a reconciliation adds to a tier is max(0, upstream_total -
\* tokens_used) for the tokens_used the correction step finds, so that the
\* counter after it is at most the larger of the upstream total and the
\* counter just before it.
C19_ReconcileSerialized ==
    [][ReconcileApplies =>
         \A t \in Tiers :
           LET total == upstreamTotal(rc.targetDate, t)
           IN /\ resultOf(rc'.result, t).added
                   = (IF total > used(t) THEN total - used(t) ELSE 0)
              /\ used(t)' <= (IF total > used(t) THEN total ELSE used(t))]_vars

(***************************************************************************)
(* Accounting and the store                                                *)
(***************************************************************************)
\* C20: when the accounting of a response ends, either the tier counter was
\* raised and the history row appended, or neither; and when the append fails
\* after the counter was raised, the request ends with an error of its own
\* kind, not the one a failed forward ends with.
C20_AccountingBothOrNeither ==
    [][\A r \in Req :
         (req[r].pc = "json" /\ req'[r].pc = "done")
           => /\ (\E t \in Tiers : used(t)' # used(t))
                   <=> Len(request_history') = Len(request_history) + 1
              /\ ((\E t \in Tiers : used(t)' # used(t))
                    /\ request_history' = request_history)
                   => req'[r].type \notin {"server_error", "upstream"}]_vars

\* C21: when the upstream answered and the accounting of its response has
\* begun (a counter is raised by the step), the request ends with the upstream
\* response and status, whether the rest of the accounting succeeds or not.
C21_AccountingFailureNotClientFailure ==
    [][\A r \in Req :
         (/\ req[r].pc = "json"
          /\ req'[r] # req[r]
          /\ \E t \in Tiers : used(t)' # used(t))
           => /\ req'[r].pc = "done"
              /\ req'[r].type = "upstream"
              /\ req'[r].status = req[r].upstream_status]_vars

\* C22: a request whose forward fails (the fetch throws, or the upstream body
\* does not parse, so that no usage was read) ends with 500 server_error in
\* that step; neither that step nor anything the request does afterwards
\* changes a usage row or the history.
C22_ForwardFailureNotAccounted ==
    [][\A r \in Req :
         /\ (/\ req[r].pc \in {"fetch", "json"}
             /\ req'[r].type = "server_error"
             /\ ~req'[r].usage.present)
              => /\ req'[r].pc = "done"
                 /\ req'[r].status = 500
                 /\ usage_records' = usage_records
                 /\ request_history' = request_history
         /\ (req[r].type = "server_error" /\ ~req[r].usage.present /\ req'[r] # req[r])
              => /\ req'[r] = Idle
                 /\ usage_records' = usage_records
                 /\ request_history' = request_history]_vars

\* the forward of a request has failed while the ledger and the history hold
\* what the other request was accounted for
C22_Witness ==
    \E r, r2 \in Req :
      /\ req[r].type = "server_error"
      /\ req[r].status = 500
      /\ req[r].forwarded
      /\ req[r].tier = "mini"
      /\ req[r2].type = "upstream"
      /\ req[r2].usage.total_tokens = 1
      /\ req[r2].tier = "mini"
      /\ used("mini") = 1
      /\ used("premium") = 0
      /\ Len(request_history) = 1

\* C23: when the parsed upstream body of a non-streaming request has no usage
\* object, or one whose total_tokens is not above 0, the step leaves both usage
\* rows and the history as they are and the request ends with the upstream
\* status and body.
C23_NoUsageNotAccounted ==
    [][\A r \in Req :
         /\ (/\ req[r].pc = "json"
             /\ req'[r].usage.present
             /\ req'[r].usage.total_tokens <= 0)
              => /\ req'[r].pc = "done"
                 /\ req'[r].type = "upstream"
                 /\ req'[r].status = req[r].upstream_status
                 /\ usage_records' = usage_records
                 /\ request_history' = request_history
         /\ (/\ req[r].pc = "json"
             /\ req'[r].type = "upstream"
             /\ ~req'[r].usage.present)
              => /\ req'[r].pc = "done"
                 /\ req'[r].status = req[r].upstream_status
                 /\ usage_records' = usage_records
                 /\ request_history' = request_history]_vars

\* after a request was accounted, the upstream answered the next one 200 with
\* a usage object whose total_tokens is 0: the ledger and the history are as
\* the first request left them
C23_Witness ==
    /\ req["r1"].type = "upstream"
    /\ req["r1"].status = 200
    /\ req["r1"].usage.present
    /\ req["r1"].usage.prompt_tokens = 1
    /\ req["r1"].usage.total_tokens = 0
    /\ req["r1"].tier = "mini"
    /\ Len(request_history) = 1
    /\ request_history[1].tier = "mini"
    /\ used("mini") = request_history[1].total_tokens

(***************************************************************************)
(* The report fetch                                                        *)
(***************************************************************************)
\* C24: the report fetch appends the rows of each page in order and asks for
\* the next page whenever a page carried a next_page; no run ends on the
\* next_page it was given; the corrections are applied to the rows of all
\* pages of the report, in order, and no other step of a run writes a counter.
C24_PaginationToCompletion ==
    [][/\ (rc.pc = "page" /\ rc'.pc = "page" /\ rc' # rc)
            => /\ rc'.pageCount = rc.pageCount + 1
               /\ rc'.pageCount < Len(upstream_report[rc.targetDate])
               /\ rc'.allResults
                    = rc.allResults \o upstream_report[rc.targetDate][rc'.pageCount]
       /\ (rc.pc = "page" /\ rc'.pc = "done") => rc'.nextPage # "cursor"
       /\ ReconcileApplies
            => /\ rc'.pageCount = Len(upstream_report[rc.targetDate])
               /\ rc'.allResults = Flatten(upstream_report[rc.targetDate])
       /\ (rc' # rc /\ usage_records' # usage_records /\ today' = today)
            => ReconcileApplies]_vars

(***************************************************************************)
(* The tier totals of a report                                             *)
(***************************************************************************)
\* the rows of a report that classify to tier t, by their position
tierRows(rows, t) == { i \in 1..Len(rows) : getModelTier(rows[i].model) = t }

\* input_tokens + output_tokens summed over the rows at the positions I
RECURSIVE rowTokens(_, _)
rowTokens(rows, I) ==
    IF I = {} THEN 0
    ELSE LET i == CHOOSE j \in I : TRUE
         IN rows[i].input_tokens + rows[i].output_tokens
            + rowTokens(rows, I \ {i})

\* C25: the total a reconciliation compares a tier's counter with is the sum
\* of input_tokens + output_tokens over the fetched rows whose model
\* getModelTier puts in that tier; each row counts for exactly one tier, so the
\* two totals add up to the tokens of all rows, and the result carries one
\* details line per row.
C25_TierTotals ==
    [][ReconcileApplies =>
         LET rows == Flatten(upstream_report[rc.targetDate])
             total(t) == rowTokens(rows, tierRows(rows, t))
         IN /\ \A t \in Tiers :
                 resultOf(rc'.result, t).added
                   = (IF total(t) > beforeOf(rc, t) THEN total(t) - beforeOf(rc, t)
                      ELSE 0)
            /\ \A i \in 1..Len(rows) :
                 Cardinality({ t \in Tiers : i \in tierRows(rows, t) }) = 1
            /\ total("premium") + total("mini") = rowTokens(rows, 1..Len(rows))
            /\ rc'.result.details = Len(rows)]_vars

\* a run that started from empty counters has added, for a report of three
\* rows on two pages, the tokens of the one premium row to premium and those
\* of the two mini rows to mini
C25_Witness ==
    /\ rc.pc = "done"
    /\ rc.result.success
    /\ upstream_report[rc.targetDate] = TwoPageReport
    /\ rc.result.premium.before = 0
    /\ rc.result.mini.before = 0
    /\ rc.result.premium.added = 3
    /\ rc.result.mini.added = 3
    /\ rc.result.details = 3

(***************************************************************************)
(* The write path of the ledger                                            *)
(***************************************************************************)
\* C26: the accounting of a response with total_tokens = n > 0 raises the
\* counter of the request's tier by the full n and appends its history row,
\* whatever the counter and the limit are: also when the counter is already at
\* or above the limit, and when the sum exceeds it.
C26_IncrementNotClamped ==
    [][\A r \in Req :
         (/\ req[r].pc = "json"
          /\ req'[r].type = "upstream"
          /\ usageTracked(req'[r].usage))
           => LET t == req[r].tier
                  n == req'[r].usage.total_tokens
              IN /\ used(t)' = used(t) + n
                 /\ used(t) >= TierLimit(t) => used(t)' > TierLimit(t)
                 /\ Len(request_history') = Len(request_history) + 1
                 /\ request_history'[Len(request_history')].total_tokens = n]_vars

\* two premium requests admitted together have both been accounted in full,
\* the second when the counter already stood at the limit or above
C26_Witness ==
    /\ \A r \in Req : /\ req[r].type = "upstream"
                       /\ req[r].tier = "premium"
                       /\ req[r].usage.total_tokens = MaxTok
    /\ MaxTok >= PREMIUM_TIER_LIMIT
    /\ used("premium") = 2 * MaxTok
    /\ used("premium") > TierLimit("premium")
    /\ Len(request_history) = 2

(***************************************************************************)
(* The history log                                                         *)
(***************************************************************************)
\* C27: in every history row, total_tokens is prompt_tokens +
\* completion_tokens, whatever usage objects the upstream sent.
C27_EntryTotalIsSum ==
    \A i \in 1..Len(request_history) :
      request_history[i].total_tokens
        = request_history[i].prompt_tokens + request_history[i].completion_tokens

\* C28: every step leaves the rows the history holds as they are, in their
\* places, and appends at most one row, whose id is above every id in the log;
\* a step that rolls the ledger over to a new day leaves the history
\* unchanged.
C28_HistoryAppendOnly ==
    [][LET n == Len(request_history)
       IN /\ Len(request_history') \in {n, n + 1}
          /\ SubSeq(request_history', 1, n) = request_history
          /\ Len(request_history') = n + 1
               => \A i \in 1..n : request_history[i].id < request_history'[n + 1].id
          /\ current_date' # current_date => request_history' = request_history
          /\ (\E r \in Req : req[r].pc # "json" /\ req'[r] # req[r])
               => request_history' = request_history]_vars

\* a row accounted on the first day is still the first row after the rollover
\* has reset the counters and a request of the same tier has been accounted on
\* the next day
C28_Witness ==
    /\ Len(request_history) = 2
    /\ request_history[1].timestamp = 0
    /\ request_history[2].timestamp = 1
    /\ request_history[1].id < request_history[2].id
    /\ request_history[1].tier = request_history[2].tier
    /\ current_date = 1
    /\ used(request_history[2].tier) = request_history[2].total_tokens

(***************************************************************************)
(* The day of a counter                                                    *)
(***************************************************************************)
\* C29: a reconciliation for a day earlier than the day in a tier's row (its
\* date column) adds nothing of that earlier day's usage to the row's counter.
C29_ReconcileOwnDayOnly ==
    [][ReconcileApplies =>
         \A t \in Tiers :
           rc.targetDate < usage_records[t].date => used(t)' = used(t)]_vars

(***************************************************************************)
(* Aborted connections                                                     *)
(***************************************************************************)
\* request r has ended with its usage accounted: the response is the
\* upstream's, and the last history row is the request's
Accounted(r) ==
    /\ req[r].pc = "done"
    /\ req[r].type = "upstream"
    /\ usageTracked(req[r].usage)
    /\ Len(request_history) > 0
    /\ request_history[Len(request_history)].total_tokens = req[r].usage.total_tokens
    /\ request_history[Len(request_history)].tier = req[r].tier
    /\ request_history[Len(request_history)].model = req[r].model

Waiting(r) == req[r].pc \in {"fetch", "json"}

\* C31: while a request is waiting for the upstream, nothing holds the other
\* handlers back: another request can be received (with the rollover check),
\* pass the admission check and be accounted, a usage read can run the
\* rollover, and a reconciliation can start and apply its corrections.
C31_NoLockAcrossForward ==
    \A r \in Req :
      Waiting(r) =>
        /\ \A r2 \in Req \ {r} :
             /\ req[r2].pc = "idle" => ENABLED ProxyStart(r2)
             /\ req[r2].pc = "body" => ENABLED ProxyAdmit(r2)
             /\ req[r2].pc = "json" => ENABLED ProxyJsonReturnFew(r2)
        /\ ENABLED GetUsage
        /\ rc.pc = "idle" => ENABLED ReconcileStart
        /\ rc.pc = "page" => ENABLED ReconcilePage

\* two premium requests passed the admission check under the limit, the
\* second while the first was waiting, and a reconciliation brought the
\* counter to one token under the limit; both requests were forwarded and
\* accounted in full, and the counter stands above the limit
C31_Witness ==
    /\ \A r \in Req : /\ req[r].type = "upstream"
                       /\ req[r].forwarded
                       /\ req[r].tier = "premium"
                       /\ req[r].usage.total_tokens = MaxTok
    /\ Len(request_history) = 2
    /\ reconciled["premium"] = PREMIUM_TIER_LIMIT - 1
    /\ used("premium") = PREMIUM_TIER_LIMIT - 1 + 2 * MaxTok
    /\ used("premium") > TierLimit("premium")

(***************************************************************************)
(* One usage row per tier                                                  *)
(***************************************************************************)
\* C32: once initDatabase has run, the table holds exactly one row for each
\* tier in every state, and no lookup finds a tier without its row;
\* initDatabase keeps a row the file already held and creates a missing one
\* with tokens_used = 0, and the rollover replaces each row in place.
C32_OneRecordPerTier ==
    /\ [](store.ready =>
            /\ \A t \in Tiers : Cardinality(selectRows(store.rows, t)) = 1
            /\ Cardinality(store.rows) = Cardinality(Tiers)
            /\ store.lookup # "not_initialized")
    /\ [][(~store.ready /\ store'.ready) =>
            \A t \in Tiers :
              IF selectRows(store.rows, t) = {}
              THEN selectRows(store'.rows, t)
                     = { [tier |-> t, date |-> today, tokens_used |-> 0,
                          limit |-> TierLimit(t)] }
              ELSE selectRows(store'.rows, t) = selectRows(store.rows, t)]_vars

\* after initDatabase and a rollover to the last day each tier has its one
\* row with the new date, the mini row has been raised since, and a lookup
\* has found its row
C32_Witness ==
    /\ store.ready
    /\ store.lookup = "found"
    /\ store.stored = MaxDay
    /\ \A t \in Tiers : \E x \in store.rows :
         x.tier = t /\ x.date = MaxDay /\ x.tokens_used = (IF t = "mini" THEN 1 ELSE 0)

(***************************************************************************)
(* The result of a reconciliation                                          *)
(***************************************************************************)
\* C33: in the result of every successful reconciliation, each tier's after is
\* its before plus its added, whatever other handlers ran while the report was
\* being fetched.
C33_AfterIsBeforePlusAdded ==
    [][ReconcileApplies =>
         \A t \in Tiers :
           resultOf(rc'.result, t).after
             = resultOf(rc'.result, t).before + resultOf(rc'.result, t).added]_vars

(***************************************************************************)
(* The ledger and its sources                                              *)
(***************************************************************************)
\* the history rows appended since the last rollover
sinceRollover == SubSeq(request_history, last_check.rows + 1, Len(request_history))

\* C34: in every state each tier's tokens_used is the sum of total_tokens of
\* the tier's history rows appended since the last rollover plus what the
\* reconciliations have added to the tier since the last rollover; it is never
\* negative and never below that history sum.
C34_LedgerIsHistoryPlusReconciled ==
    \A t \in Tiers :
      /\ used(t) = histTierSum(sinceRollover, t) + reconciled[t]
      /\ used(t) \in Nat
      /\ reconciled[t] \in Nat
      /\ used(t) >= histTierSum(sinceRollover, t)

(***************************************************************************)
(* The date of the rows                                                    *)
(***************************************************************************)
\* C35: in every state the date of each tier's row is the stored date, also
\* right after a rollover during which the clock passed midnight.
C35_RowDateIsStoredDate ==
    \A t \in Tiers : usage_records[t].date = current_date

(***************************************************************************)
(* What a write leaves alone                                               *)
(***************************************************************************)
\* C36: the accounting of a request writes only the tokens_used of the
\* request's tier; the corrections of a reconciliation write only the
\* tokens_used of the tiers they add to; and a step that changes the limit or
\* the date of a row is a rollover check that found a new day.
C36_WritesOneTier ==
    [][/\ \A r \in Req :
            (req[r].pc = "json" /\ req'[r] # req[r])
              => /\ usage_records'[OtherTier(req[r].tier)]
                      = usage_records[OtherTier(req[r].tier)]
                 /\ usage_records'[req[r].tier].limit = usage_records[req[r].tier].limit
                 /\ usage_records'[req[r].tier].date = usage_records[req[r].tier].date
       /\ ReconcileApplies
            => \A t \in Tiers :
                 /\ resultOf(rc'.result, t).added = 0
                      => usage_records'[t] = usage_records[t]
                 /\ usage_records'[t].limit = usage_records[t].limit
                 /\ usage_records'[t].date = usage_records[t].date
       /\ (\E t \in Tiers : \/ usage_records'[t].limit # usage_records[t].limit
                            \/ usage_records'[t].date # usage_records[t].date)
            => (RolloverCall /\ last_check'.rolled)]_vars

\* a mini request was accounted and a reconciliation then added tokens to
\* premium only: the mini row holds the request's tokens, and both rows keep
\* their limit and the stored date
C36_Witness ==
    /\ rc.pc = "done"
    /\ rc.result.success
    /\ rc.result.premium.added > 0
    /\ rc.result.mini.added = 0
    /\ Len(request_history) = 1
    /\ request_history[1].tier = "mini"
    /\ used("mini") = request_history[1].total_tokens
    /\ used("premium") = rc.result.premium.added
    /\ \A t \in Tiers : /\ usage_records[t].limit = TierLimit(t)
                         /\ usage_records[t].date = current_date

(***************************************************************************)
(* The alerts of the polling worker                                        *)
(***************************************************************************)
alertsOf(tier, day) ==
    { i \in 1..Len(worker.alerts) :
        worker.alerts[i].tier = tier /\ worker.alerts[i].created_at = day }

\* C37: for each tier and day the alerts table holds at most one alert and
\* the webhook took at most one, whatever the polls and their interleaving
\* (the reported usage never falls during a day); and every alert was
\* triggered at a rounded percentage at or above the threshold.
C37_OneAlertPerTierPerDay ==
    /\ \A t \in Tiers, d \in Days :
         /\ Cardinality(alertsOf(t, d)) <= 1
         /\ Cardinality({ i \in alertsOf(t, d) : worker.alerts[i].delivered }) <= 1
    /\ \A i \in 1..Len(worker.alerts) : worker.alerts[i].percentage >= ALERT_THRESHOLD

(***************************************************************************)
(* The tiers of the polling worker                                         *)
(***************************************************************************)
\* C38: the worker's classifier answers mini for every name that, in lower
\* case, starts with a name of the mini list, also when it starts with a name
\* of the premium list as gpt-4o-mini does; and it answers premium for a name
\* that starts with no listed name.
C38_WorkerMiniFirst ==
    tier_out # "none"
      => /\ SomePrefix(WORKER_MINI_MODELS, toLowerCase(model_in)) => tier_out = "mini"
         /\ (/\ ~SomePrefix(WORKER_MINI_MODELS, toLowerCase(model_in))
             /\ ~SomePrefix(WORKER_PREMIUM_MODELS, toLowerCase(model_in)))
              => tier_out = "premium"

\* GPT-4O-MINI, which in lower case starts with gpt-4o-mini, gpt-4o and gpt-4
C38_Witness ==
    /\ model_in = <<"G", "P", "T", "-", "4", "O", "-", "M", "I", "N", "I">>
    /\ StartsWith(toLowerCase(model_in), WORKER_PREMIUM_MODELS[1])
    /\ tier_out = "mini"

====
